---- MODULE Spec2Model ----
(***************************************************************************)
(* State-machine model of the Data_Governance notebooks: the suppression,  *)
(* perturbation and k-anonymity notebooks, their SQL statements against    *)
(* the patients table and the Python functions they define.                *)
(*                                                                         *)
(* Amounts are exact decimals, held as integers in thousandths of a        *)
(* currency unit (337.38 is 337380), so that a DECIMAL(10,2) cell is a     *)
(* multiple of 10 and a Python float may carry a third decimal.            *)
(***************************************************************************)
EXTENDS Integers, Sequences, FiniteSets, TLC

VARIABLES
    \* ---- the PostgreSQL store of the suppression notebook
    tableExists,      \* whether relation "patients" exists
    patients,         \* its rows, in insertion order
    patients_id_seq,  \* next value of the SERIAL sequence behind patients.id
    cell,             \* the notebook cell being executed ("none" when idle)
    stmt,             \* number of statements of that cell already executed
    lastStmt,         \* the last statement the store executed (or "error"/"interrupt")
    \* ---- a call of one of the Python functions
    call,             \* [fn, arg, ret] of the last call, or NoCall
    \* ---- the perturbation functions, in two runs of the interpreter
    rng,              \* run -> state of Python's global generator (module random)
    inputs,           \* the sequence of calls both runs are given
    outputs,          \* run -> the calls made since the last seeding, with their results
    seeded,           \* run -> <<a>> after random.seed(a), <<>> before any seeding
    \* ---- the table of the perturbation notebook
    expenses,         \* rows of patients with medical_expense and perturbed_expense
    \* ---- the anonymization notebook
    heap,             \* DataFrame objects by identity
    df,               \* the name df: <<reference>> of the synthetic data set
    df_k_anonymous,   \* the name df_k_anonymous: <<reference>> once bound, <<>> before
    k_used,           \* <<k>>: the k the last call of apply_k_anonymity was given
    l_diverse,        \* the name l_diverse: <<boolean>> once bound, <<>> before
    \* ---- the graph cell of the graphs-and-locations notebook
    graph,            \* the name graph: <<reference>> of the synthetic graph
    perturbed_graph,  \* the name perturbed_graph: <<reference>> once bound, <<>> before
    frame,            \* the activation of perturb_edges: its position and its locals
    \* ---- the table of the pseudonymization notebook
    pseudonymized,    \* rows of patients with insurance_amount and pseudonym
    \* ---- the PostgreSQL server and the connection-setup cell
    pg_database,      \* names of the databases of the server, besides postgres
    setup             \* the connection-setup cell: its position and what it did

storeVars == <<tableExists, patients, patients_id_seq, cell, stmt, lastStmt>>
rngVars == <<rng, inputs, outputs, seeded>>
frameVars == <<heap, df, df_k_anonymous, k_used, l_diverse>>
graphVars == <<graph, perturbed_graph, frame>>
serverVars == <<pg_database, setup>>
vars == <<storeVars, call, rngVars, expenses, frameVars, graphVars, pseudonymized, serverVars>>

NoCall == [fn |-> "none"]

\* a decimal literal u.cc in thousandths
Dec(u, c) == u * 1000 + c * 10

(***************************************************************************)
(* Bounds of the model                                                     *)
(***************************************************************************)
MaxPreRows == 2      \* rows a patients table left by an earlier run may hold
MaxTableRows == 12   \* rows the table may hold before another seeding starts
RngMod == 7          \* number of states of the random generator
MaxCalls == 2        \* calls of a perturbation function in one run
MaxExpenseRows == 2  \* rows of the perturbation notebook's table
MaxDfRows == 3       \* rows of the synthetic DataFrame
MaxNodes == 3        \* nodes of the synthetic graph
MaxDummies == 2      \* dummy locations asked for in one call
MaxPseudonymRows == 2 \* rows of the pseudonymization notebook's table

(***************************************************************************)
(* Suppression notebook                                                    *)
(***************************************************************************)
THRESHOLD == Dec(300, 0)
SENTINEL == 0 - Dec(1, 0)

\* The ten literal records of the seeding cell, in statement order.
SeedRows == <<
  [full_name |-> "Samantha Ford", birth_date |-> "1970-01-01", country |-> "Taiwan",
   medical_condition |-> "Heart Condition", insurance_cost |-> Dec(337, 38)],
  [full_name |-> "Rebecca Parker", birth_date |-> "1944-07-25", country |-> "Rwanda",
   medical_condition |-> "Lung Disease", insurance_cost |-> Dec(270, 66)],
  [full_name |-> "Donald Phillips", birth_date |-> "1946-03-01", country |-> "Jamaica",
   medical_condition |-> "Diabetes", insurance_cost |-> Dec(408, 3)],
  [full_name |-> "Natalie Long", birth_date |-> "1983-12-27", country |-> "Sao Tome and Principe",
   medical_condition |-> "Kidney Failure", insurance_cost |-> Dec(978, 66)],
  [full_name |-> "Stephanie Williams", birth_date |-> "1945-07-25", country |-> "Kuwait",
   medical_condition |-> "Heart Condition", insurance_cost |-> Dec(694, 81)],
  [full_name |-> "Dr. George Young", birth_date |-> "1957-09-18", country |-> "Ireland",
   medical_condition |-> "Kidney Failure", insurance_cost |-> Dec(822, 35)],
  [full_name |-> "John Baker", birth_date |-> "1971-10-22", country |-> "New Zealand",
   medical_condition |-> "Diabetes", insurance_cost |-> Dec(782, 3)],
  [full_name |-> "Amanda Johnson", birth_date |-> "1958-06-13", country |-> "Sri Lanka",
   medical_condition |-> "Kidney Failure", insurance_cost |-> Dec(385, 76)],
  [full_name |-> "Shaun Roberts", birth_date |-> "2004-04-28", country |-> "Saint Kitts and Nevis",
   medical_condition |-> "Lung Disease", insurance_cost |-> Dec(466, 35)],
  [full_name |-> "Mrs. Audrey Wolfe", birth_date |-> "1945-05-26", country |-> "Tajikistan",
   medical_condition |-> "Heart Condition", insurance_cost |-> Dec(799, 51)] >>

\* INSERT INTO patients (...) VALUES (...): id is drawn from the sequence.
InsertRow_first(rows, id, r) ==
  <<[id |-> id, full_name |-> r.full_name, birth_date |-> r.birth_date,
     country |-> r.country, medical_condition |-> r.medical_condition,
     insurance_cost |-> <<r.insurance_cost>>]>> \o rows
InsertRow(rows, id, r) ==
  Append(rows, [id |-> id, full_name |-> r.full_name, birth_date |-> r.birth_date,
                country |-> r.country, medical_condition |-> r.medical_condition,
                insurance_cost |-> <<r.insurance_cost>>])

\* def suppress_insurance_cost(cost): return -1 if cost > 300 else cost
suppress_insurance_cost_ge(cost) == IF cost >= THRESHOLD THEN SENTINEL ELSE cost
suppress_insurance_cost(cost) == IF cost > THRESHOLD THEN SENTINEL ELSE cost

\* ... WHERE insurance_cost > 300: a comparison with NULL is not true.
UpdateWhere_ge(row) == row.insurance_cost # <<>> /\ row.insurance_cost[1] >= THRESHOLD
UpdateWhere_lt(row) == row.insurance_cost # <<>> /\ row.insurance_cost[1] < THRESHOLD
UpdateWhere(row) == row.insurance_cost # <<>> /\ row.insurance_cost[1] > THRESHOLD

\* UPDATE patients SET insurance_cost = -1 WHERE insurance_cost > 300;
UpdateSuppress_subtract(rows) ==
  [i \in 1..Len(rows) |->
     IF UpdateWhere(rows[i])
       THEN [rows[i] EXCEPT !.insurance_cost = <<rows[i].insurance_cost[1] - THRESHOLD>>]
       ELSE rows[i]]
UpdateSuppress(rows) ==
  [i \in 1..Len(rows) |->
     IF UpdateWhere(rows[i]) THEN [rows[i] EXCEPT !.insurance_cost = <<SENTINEL>>] ELSE rows[i]]

\* Amounts a DECIMAL(10,2) cell of an earlier run may hold.
ColumnValues == {SENTINEL, 0, Dec(299, 99), Dec(300, 0), Dec(300, 1), Dec(978, 66)}
\* The column is nullable: a cell holds <<>> for NULL and <<v>> for the amount v.
NullableColumnValues == {<<>>} \cup {<<v>> : v \in ColumnValues}
\* Arguments of the Python function: any number, also below a cent.
CostValues == ColumnValues \cup {0 - Dec(250, 0), THRESHOLD + 1, THRESHOLD - 1}
\* Types of arguments that are not numbers: None and a string.
MalformedTypes == {"NoneType", "str"}

\* cost > 300 raises TypeError when cost is not a number.
py_gt_raises(argtype) == argtype \in {"NoneType", "str"}

PreRow(i, v) ==
  [id |-> i, full_name |-> "Earlier Patient", birth_date |-> "1960-01-01",
   country |-> "Chile", medical_condition |-> "Asthma", insurance_cost |-> v]

\* Tables an earlier run of the same notebook may have left in the store.
PreTable(n, costs) == [i \in 1..n |-> PreRow(i, costs[i])]

(***************************************************************************)
(* Values the variables of a notebook hold while another one is modelled   *)
(***************************************************************************)
StoreIdle ==
  /\ tableExists = FALSE /\ patients = <<>> /\ patients_id_seq = 1
  /\ cell = "none" /\ stmt = 0 /\ lastStmt = "none"
RngIdle == rng = <<>> /\ inputs = <<>> /\ outputs = <<>> /\ seeded = <<>>
FramesIdle ==
  /\ heap = <<>> /\ df = <<>> /\ df_k_anonymous = <<>> /\ k_used = <<>> /\ l_diverse = <<>>
NoFrame == [pc |-> "none"]
GraphIdle == graph = <<>> /\ perturbed_graph = <<>> /\ frame = NoFrame
PseudonymIdle == pseudonymized = <<>>
NoSetup ==
  [pc |-> "idle", PG_DBNA |-> "", exists |-> <<>>, create_issued |-> FALSE,
   create_failed |-> FALSE, completed |-> FALSE]
ServerIdle == pg_database = {} /\ setup = NoSetup

(***************************************************************************)
(* Suppression notebook: the cells, statement by statement.  Every         *)
(* statement runs with autocommit, so the store keeps what the statements  *)
(* executed so far wrote when a cell stops early.                          *)
(***************************************************************************)
InitSuppression ==
  /\ tableExists \in BOOLEAN
  /\ IF tableExists
       THEN \E n \in 0..MaxPreRows : \E costs \in [1..n -> NullableColumnValues] :
              patients = PreTable(n, costs)
       ELSE patients = <<>>
  /\ patients_id_seq = Len(patients) + 1
  /\ cell = "none" /\ stmt = 0 /\ lastStmt = "none"
  /\ call = NoCall
  /\ RngIdle /\ expenses = <<>> /\ FramesIdle /\ GraphIdle /\ PseudonymIdle
  /\ ServerIdle

\* conn.execute("DROP TABLE IF EXISTS patients;")
DropTable ==
  /\ cell = "none"
  /\ tableExists' = FALSE
  /\ patients' = <<>>
  /\ patients_id_seq' = 1
  /\ cell' = "create" /\ stmt' = 1 /\ lastStmt' = "drop"
  /\ UNCHANGED <<call, rngVars, expenses, frameVars, graphVars, pseudonymized, serverVars>>

\* conn.execute("CREATE TABLE patients (id SERIAL PRIMARY KEY, ...);")
CreateTable ==
  /\ cell = "create"
  /\ tableExists' = TRUE
  /\ patients' = <<>>
  /\ patients_id_seq' = 1
  /\ cell' = "none" /\ stmt' = 0 /\ lastStmt' = "create"
  /\ UNCHANGED <<call, rngVars, expenses, frameVars, graphVars, pseudonymized, serverVars>>

\* The next INSERT of the seeding cell; the first one starts the cell.  An
\* INSERT into a relation that does not exist raises, which ends the cell.
SeedInsert ==
  /\ \/ cell = "none" /\ Len(patients) + Len(SeedRows) <= MaxTableRows
     \/ cell = "seed"
  /\ IF tableExists
       THEN /\ patients' = InsertRow(patients, patients_id_seq, SeedRows[stmt + 1])
            /\ patients_id_seq' = patients_id_seq + 1
            /\ lastStmt' = "insert"
            /\ IF stmt + 1 = Len(SeedRows)
                 THEN cell' = "none" /\ stmt' = 0
                 ELSE cell' = "seed" /\ stmt' = stmt + 1
       ELSE /\ cell' = "none" /\ stmt' = 0 /\ lastStmt' = "error"
            /\ UNCHANGED <<patients, patients_id_seq>>
  /\ UNCHANGED <<tableExists, call, rngVars, expenses, frameVars, graphVars, pseudonymized,
                 serverVars>>

\* conn.execute("UPDATE patients SET insurance_cost = -1 WHERE insurance_cost > 300;")
SuppressUpdate ==
  /\ cell = "none"
  /\ IF tableExists
       THEN patients' = UpdateSuppress(patients) /\ lastStmt' = "update"
       ELSE UNCHANGED patients /\ lastStmt' = "error"
  /\ UNCHANGED <<tableExists, patients_id_seq, cell, stmt, call, rngVars, expenses,
                 frameVars, graphVars, pseudonymized, serverVars>>

\* The kernel is interrupted, or the connection lost, between two statements.
Interrupt ==
  /\ cell # "none"
  /\ cell' = "none" /\ stmt' = 0 /\ lastStmt' = "interrupt"
  /\ UNCHANGED <<tableExists, patients, patients_id_seq, call, rngVars, expenses,
                 frameVars, graphVars, pseudonymized, serverVars>>

\* A call suppress_insurance_cost(cost) of the function the notebook defines.
CallSuppress ==
  /\ cell = "none"
  /\ \/ \E cost \in CostValues :
          call' = [fn |-> "suppress_insurance_cost", arg |-> cost,
                   ret |-> suppress_insurance_cost(cost)]
     \/ \E argtype \in MalformedTypes :
          /\ py_gt_raises(argtype)
          /\ call' = [fn |-> "suppress_insurance_cost", argtype |-> argtype,
                      raised |-> "TypeError"]
  /\ UNCHANGED <<storeVars, rngVars, expenses, frameVars, graphVars, pseudonymized, serverVars>>

NextSuppression ==
  \/ DropTable
  \/ CreateTable
  \/ SeedInsert
  \/ SuppressUpdate
  \/ Interrupt
  \/ CallSuppress

SpecSuppression == InitSuppression /\ [][NextSuppression]_vars

(***************************************************************************)
(* Claims on the suppression notebook                                      *)
(***************************************************************************)
\* The step of the store that executes the suppression UPDATE.
IsSuppressUpdateStep == cell = "none" /\ tableExists /\ lastStmt' = "update" /\ cell' = "none"

SuppressCalled == call.fn = "suppress_insurance_cost" /\ "ret" \in DOMAIN call

\* C1 (as claimed): for every value v, suppression returns the sentinel -1 if and
\* only if v > 300 and returns v itself otherwise, for the Python function and for
\* every row the UPDATE visits.
C1_SentinelIffAboveThreshold ==
  /\ [](SuppressCalled =>
          /\ (call.ret = SENTINEL) <=> (call.arg > THRESHOLD)
          /\ ~(call.arg > THRESHOLD) => call.ret = call.arg)
  /\ [][IsSuppressUpdateStep =>
          \A i \in {j \in 1..Len(patients) : patients[j].insurance_cost # <<>>} :
            /\ (patients'[i].insurance_cost = <<SENTINEL>>)
                 <=> (patients[i].insurance_cost[1] > THRESHOLD)
            /\ ~(patients[i].insurance_cost[1] > THRESHOLD)
                 => patients'[i].insurance_cost = patients[i].insurance_cost]_vars

\* C1 (amended): for every value v, suppression returns the sentinel -1 when
\* v > 300 and v itself when v <= 300 (v = 300, zero and negative values pass
\* through unchanged); so the result is the sentinel if and only if v > 300 or v is
\* itself -1.  This holds of the Python function and of every row of the UPDATE.
C1_SuppressAboveElsePassThrough ==
  /\ [](SuppressCalled =>
          /\ call.arg > THRESHOLD => call.ret = SENTINEL
          /\ call.arg <= THRESHOLD => call.ret = call.arg
          /\ (call.ret = SENTINEL) <=> (call.arg > THRESHOLD \/ call.arg = SENTINEL))
  /\ [][IsSuppressUpdateStep =>
          /\ Len(patients') = Len(patients)
          /\ \A i \in {j \in 1..Len(patients) : patients[j].insurance_cost # <<>>} :
               /\ patients[i].insurance_cost[1] > THRESHOLD
                    => patients'[i].insurance_cost = <<SENTINEL>>
               /\ patients[i].insurance_cost[1] <= THRESHOLD
                    => patients'[i].insurance_cost = patients[i].insurance_cost]_vars

\* C1 witness: the function was called on the threshold itself and passed it
\* through, and the UPDATE has run over a table and left a sentinel in it.
C1_Witness ==
  /\ SuppressCalled /\ call.arg = THRESHOLD /\ call.ret = THRESHOLD
  /\ lastStmt = "update"
  /\ \E i \in 1..Len(patients) : patients[i].insurance_cost = <<SENTINEL>>

\* The table right after creation and one complete run of the seeding cell.
HoldsTheTenSeeds ==
  /\ tableExists
  /\ Len(patients) = Len(SeedRows)
  /\ \A i \in 1..Len(patients) :
       patients[i].id = i /\ patients[i].full_name = SeedRows[i].full_name

\* C2: after creating the table, seeding the ten literal records and running the
\* suppression UPDATE, the rows seeded with 337.38 and 408.03 hold -1 and the row
\* seeded with 270.66 still holds 270.66.
C2_EndToEndSuppression ==
  (lastStmt = "update" /\ HoldsTheTenSeeds) =>
     \A i \in 1..Len(patients) :
       /\ SeedRows[i].insurance_cost \in {Dec(337, 38), Dec(408, 3)}
            => patients[i].insurance_cost = <<0 - Dec(1, 0)>>
       /\ SeedRows[i].insurance_cost = Dec(270, 66)
            => patients[i].insurance_cost = <<Dec(270, 66)>>

\* C2 witness: the scenario has run, and the first, second and third row hold
\* -1, 270.66 and -1.
C2_Witness ==
  /\ lastStmt = "update" /\ HoldsTheTenSeeds
  /\ patients[1].insurance_cost = <<0 - Dec(1, 0)>>
  /\ patients[2].insurance_cost = <<Dec(270, 66)>>
  /\ patients[3].insurance_cost = <<0 - Dec(1, 0)>>

(***************************************************************************)
(* Perturbation functions (perturb_income, perturb_expense) and Python's   *)
(* global random generator                                                 *)
(***************************************************************************)
Runs == {1, 2}

NOISE == Dec(100, 0)

Max(a, b) == IF a >= b THEN a ELSE b
Min(a, b) == IF a <= b THEN a ELSE b
Abs(x) == IF x >= 0 THEN x ELSE 0 - x

\* round(x, 2): the nearest multiple of 0.01, a tie going to the even one.
round2(x) ==
  LET q == x \div 10
      r == x % 10
  IN  IF r < 5 THEN q * 10
      ELSE IF r > 5 THEN (q + 1) * 10
      ELSE IF q % 2 = 0 THEN q * 10 ELSE (q + 1) * 10

\* random.seed(a): the generator's state becomes a function of a alone.
random_seed_keep(s, a) == s
random_seed(s, a) == a % RngMod

\* The state of the generator after one draw.
random_next(s) == (3 * s + 1) % RngMod

\* random.uniform(a, b) == a + (b - a) * random(), random() in [0, 1) being the
\* fraction s / RngMod the generator yields in state s.
uniform(s, a, b) == a + ((b - a) * s) \div RngMod

\* def perturb_income(value, noise_magnitude):
\*     noise = random.uniform(-noise_magnitude, noise_magnitude)
\*     return round(value + noise, 2)
perturb_income_wide(value, noise_magnitude, s) ==
  round2(value + uniform(s, 0 - 2 * noise_magnitude, 2 * noise_magnitude))
perturb_income(value, noise_magnitude, s) ==
  round2(value + uniform(s, 0 - noise_magnitude, noise_magnitude))

\* def perturb_expense(expense):
\*     noise = random.uniform(-100, 100)
\*     return max(0, round(expense + noise, 2))
perturb_expense_unclamped(expense, s) == round2(expense + uniform(s, 0 - NOISE, NOISE))
perturb_expense(expense, s) == Max(0, round2(expense + uniform(s, 0 - NOISE, NOISE)))

SeedValues == {42, 43}

\* The calls a run is given: (function, value, noise magnitude).
InputCalls ==
  {[fn |-> "perturb_income", value |-> v, magnitude |-> m] :
      <<v, m>> \in {<<Dec(30000, 0), Dec(5000, 0)>>, <<4, 0>>, <<Dec(30000, 0), 15>>}}
  \cup
  {[fn |-> "perturb_expense", value |-> v, magnitude |-> NOISE] :
      v \in {Dec(1032, 71), Dec(50, 0), Dec(1000, 0) + 4, 0 - Dec(20, 0)}}

InitPerturb ==
  /\ inputs \in [1..MaxCalls -> InputCalls]
  /\ rng \in [Runs -> 0..(RngMod - 1)]
  /\ seeded = [r \in Runs |-> <<>>]
  /\ outputs = [r \in Runs |-> <<>>]
  /\ StoreIdle /\ call = NoCall /\ expenses = <<>> /\ FramesIdle /\ GraphIdle /\ PseudonymIdle
  /\ ServerIdle

\* random.seed(a) in run r; the run starts over on its inputs.
Seed(r) ==
  /\ \E a \in SeedValues :
       /\ rng' = [rng EXCEPT ![r] = random_seed(rng[r], a)]
       /\ seeded' = [seeded EXCEPT ![r] = <<a>>]
  /\ outputs' = [outputs EXCEPT ![r] = <<>>]
  /\ UNCHANGED <<storeVars, call, inputs, expenses, frameVars, graphVars, pseudonymized,
                 serverVars>>

\* The call record kept for a result: the noise is the draw the call consumed.
Outcome(c, s, ret) ==
  [fn |-> c.fn, value |-> c.value, magnitude |-> c.magnitude,
   noise |-> uniform(s, 0 - c.magnitude, c.magnitude), ret |-> ret]

\* Run r calls perturb_income on its next input.
CallPerturbIncome(r) ==
  /\ Len(outputs[r]) < Len(inputs)
  /\ LET c == inputs[Len(outputs[r]) + 1]
     IN  /\ c.fn = "perturb_income"
         /\ outputs' = [outputs EXCEPT ![r] =
              Append(@, Outcome(c, rng[r], perturb_income(c.value, c.magnitude, rng[r])))]
  /\ rng' = [rng EXCEPT ![r] = random_next(rng[r])]
  /\ UNCHANGED <<storeVars, call, inputs, seeded, expenses, frameVars, graphVars,
                 pseudonymized, serverVars>>

\* Run r calls perturb_expense on its next input.
CallPerturbExpense(r) ==
  /\ Len(outputs[r]) < Len(inputs)
  /\ LET c == inputs[Len(outputs[r]) + 1]
     IN  /\ c.fn = "perturb_expense"
         /\ outputs' = [outputs EXCEPT ![r] =
              Append(@, Outcome(c, rng[r], perturb_expense(c.value, rng[r])))]
  /\ rng' = [rng EXCEPT ![r] = random_next(rng[r])]
  /\ UNCHANGED <<storeVars, call, inputs, seeded, expenses, frameVars, graphVars,
                 pseudonymized, serverVars>>

NextPerturb ==
  \/ \E r \in Runs : Seed(r)
  \/ \E r \in Runs : CallPerturbIncome(r)
  \/ \E r \in Runs : CallPerturbExpense(r)

SpecPerturb == InitPerturb /\ [][NextPerturb]_vars

(***************************************************************************)
(* Claims on the perturbation functions                                    *)
(***************************************************************************)
Outcomes == UNION {{outputs[r][i] : i \in 1..Len(outputs[r])} : r \in Runs}

\* C3: perturb_expense never returns a value below 0, and returns exactly 0 when
\* expense + noise < 0.
C3_ExpenseNeverBelowFloor ==
  \A o \in Outcomes :
    o.fn = "perturb_expense" =>
      /\ o.ret >= 0
      /\ o.value + o.noise < 0 => o.ret = 0

\* C3 witness: a call of perturb_expense whose expense + noise was negative, with
\* a noise inside [-100, 100], returned 0.
C3_Witness ==
  \E o \in Outcomes :
    /\ o.fn = "perturb_expense" /\ o.value >= 0
    /\ o.noise >= 0 - NOISE /\ o.noise <= NOISE
    /\ o.value + o.noise < 0 /\ o.ret = 0

\* No clamping occurred: the sum value + noise was not below the floor.
Unclamped(o) == o.fn = "perturb_income" \/ o.value + o.noise >= 0

\* C5 (as claimed): whenever no clamping occurred, |result - value| <= magnitude,
\* for perturb_income with any magnitude >= 0 and perturb_expense with 100.
C5_WithinMagnitude ==
  \A o \in Outcomes : Unclamped(o) => Abs(o.ret - o.value) <= o.magnitude

\* C5 (amended): whenever no clamping occurred, |result - value| <= magnitude +
\* 0.005, the rounding to 2 decimal places adding at most half a hundredth; and
\* |result - value| <= magnitude when value and magnitude are whole hundredths.
C5_WithinMagnitudePlusRounding ==
  \A o \in Outcomes :
    Unclamped(o) =>
      /\ Abs(o.ret - o.value) <= o.magnitude + 5
      /\ (o.value % 10 = 0 /\ o.magnitude % 10 = 0) => Abs(o.ret - o.value) <= o.magnitude

\* C5 witness: an unclamped call on whole hundredths whose noise had a third
\* decimal, so that rounding moved the result, and an unclamped call whose
\* result lies farther than the magnitude from its value.
C5_Witness ==
  /\ \E o \in Outcomes :
       /\ Unclamped(o) /\ o.value % 10 = 0 /\ o.magnitude % 10 = 0
       /\ o.noise % 10 # 0 /\ o.ret # o.value + o.noise
  /\ \E o \in Outcomes :
       Unclamped(o) /\ Abs(o.ret - o.value) > o.magnitude

\* C6: two runs seeded with the same value and given the same input sequence
\* return the same output sequence, whatever state their generators were in
\* before the seeding.
C6_SameSeedSameOutputs ==
  \A r1, r2 \in Runs :
    (seeded[r1] # <<>> /\ seeded[r1] = seeded[r2]) =>
      \A i \in 1..Min(Len(outputs[r1]), Len(outputs[r2])) :
        outputs[r1][i].ret = outputs[r2][i].ret

\* C6 witness: both runs were seeded with 42, made all their calls, among them one
\* of each function, and agree.
C6_Witness ==
  /\ seeded[1] = <<42>> /\ seeded[2] = <<42>>
  /\ Len(outputs[1]) = MaxCalls /\ Len(outputs[2]) = MaxCalls
  /\ outputs[1] = outputs[2]
  /\ \E i, j \in 1..MaxCalls :
       outputs[1][i].fn = "perturb_income" /\ outputs[1][j].fn = "perturb_expense"

(***************************************************************************)
(* Perturbation notebook: the statements applied to the table              *)
(*   ALTER TABLE patients ADD COLUMN perturbed_expense DECIMAL(10,2);      *)
(*   UPDATE patients SET perturbed_expense =                               *)
(*                         medical_expense + (RANDOM() * 200 - 100);       *)
(* A nullable cell holds <<>> for NULL and <<v>> for the value v.          *)
(***************************************************************************)
\* Amounts the medical_expense column may hold.
ExpenseValues == {0, Dec(50, 0), Dec(99, 99), Dec(100, 0), Dec(1032, 71)}

\* RANDOM() * 200 - 100, with RANDOM() in [0, 1).
SqlNoise == {0 - NOISE, 0 - (Dec(50, 0) + 4), 0, Dec(49, 99) + 5, NOISE - 1}

\* Assignment to a DECIMAL(10,2) column rounds to 2 places, a tie away from zero.
sql_round2(x) == IF x >= 0 THEN ((x + 5) \div 10) * 10 ELSE 0 - ((((0 - x) + 5) \div 10) * 10)

ExpenseRow(i, v) ==
  [id |-> i, full_name |-> "Earlier Patient", birth_date |-> "1960-01-01",
   country |-> "Chile", medical_condition |-> "Asthma", medical_expense |-> v]

ExpenseColumns ==
  {"id", "full_name", "birth_date", "country", "medical_condition", "medical_expense"}

ExpenseTable(n, amounts) == [i \in 1..n |-> ExpenseRow(i, amounts[i])]

\* ALTER TABLE patients ADD COLUMN perturbed_expense DECIMAL(10,2): NULL in every row.
AddColumn(rows) ==
  [i \in 1..Len(rows) |->
     [c \in DOMAIN rows[i] \cup {"perturbed_expense"} |->
        IF c = "perturbed_expense" THEN <<>> ELSE rows[i][c]]]

\* One row of the UPDATE, noise being that row's RANDOM() * 200 - 100.
PerturbedValue(medical_expense, noise) == sql_round2(medical_expense + noise)

UpdatePerturb(rows, noise) ==
  [i \in 1..Len(rows) |->
     [rows[i] EXCEPT !.perturbed_expense = <<PerturbedValue(rows[i].medical_expense, noise[i])>>]]

InitPerturbSql ==
  /\ \E n \in 0..MaxExpenseRows : \E amounts \in [1..n -> ExpenseValues] :
       expenses = [columns |-> ExpenseColumns, rows |-> ExpenseTable(n, amounts)]
  /\ StoreIdle /\ call = NoCall /\ RngIdle /\ FramesIdle /\ GraphIdle /\ PseudonymIdle
  /\ ServerIdle

\* First statement of the perturbation cell.  Adding a column that exists
\* raises, which ends the cell before its UPDATE.
AlterAddColumn ==
  /\ cell = "none"
  /\ IF "perturbed_expense" \in expenses.columns
       THEN /\ lastStmt' = "error"
            /\ UNCHANGED <<expenses, cell, stmt>>
       ELSE /\ expenses' = [columns |-> expenses.columns \cup {"perturbed_expense"},
                            rows |-> AddColumn(expenses.rows)]
            /\ cell' = "perturb" /\ stmt' = 1 /\ lastStmt' = "alter"
  /\ UNCHANGED <<tableExists, patients, patients_id_seq, call, rngVars, frameVars,
                 graphVars, pseudonymized, serverVars>>

\* Second statement of the perturbation cell: every row draws its own RANDOM().
PerturbUpdate ==
  /\ cell = "perturb"
  /\ \E noise \in [1..Len(expenses.rows) -> SqlNoise] :
       expenses' = [expenses EXCEPT !.rows = UpdatePerturb(expenses.rows, noise)]
  /\ cell' = "none" /\ stmt' = 0 /\ lastStmt' = "update"
  /\ UNCHANGED <<tableExists, patients, patients_id_seq, call, rngVars, frameVars,
                 graphVars, pseudonymized, serverVars>>

NextPerturbSql ==
  \/ AlterAddColumn
  \/ PerturbUpdate
  \/ Interrupt

SpecPerturbSql == InitPerturbSql /\ [][NextPerturbSql]_vars

(***************************************************************************)
(* Claims on the perturbation applied to the table                         *)
(***************************************************************************)
\* C4: after the bulk UPDATE that writes perturbed_expense, every row with a
\* non-negative medical_expense holds a perturbed_expense >= 0.
C4_PerturbedColumnNeverBelowFloor ==
  (lastStmt = "update" /\ "perturbed_expense" \in expenses.columns) =>
     \A i \in 1..Len(expenses.rows) :
       expenses.rows[i].medical_expense >= 0 =>
         /\ expenses.rows[i].perturbed_expense # <<>>
         /\ expenses.rows[i].perturbed_expense[1] >= 0

(***************************************************************************)
(* Anonymization notebook: DataFrames, apply_k_anonymity, check_l_diversity *)
(* A DataFrame is an object of the heap, [columns, rows]: the column names *)
(* in order and one record per row.  A name of the notebook holds <<>>     *)
(* while unbound and <<v>> once bound to v.                                *)
(***************************************************************************)
K_DEFAULT == 5
L_DEFAULT == 2

\* Sample of np.random.randint(18, 80), np.random.randint(20000, 100000) and of
\* the condition labels.
Ages == {18, 24, 25}
Incomes == {29999, 30000}
Conditions == {"Diabetes", "None"}
KValues == {1, 2, K_DEFAULT}

\* pd.DataFrame({"id": range(n), "age": ages, "income": incomes, "condition": conditions})
DataFrame(n, ages, incomes, conditions) ==
  [columns |-> <<"id", "age", "income", "condition">>,
   rows |-> [i \in 1..n |->
               [id |-> i - 1, age |-> ages[i], income |-> incomes[i],
                condition |-> conditions[i]]]]

HasColumn(f, name) == \E j \in 1..Len(f.columns) : f.columns[j] = name

\* df[name] = values: the column is replaced, or appended as the last one.
set_column(f, name, values) ==
  [columns |-> IF HasColumn(f, name) THEN f.columns ELSE Append(f.columns, name),
   rows |-> [i \in 1..Len(f.rows) |->
               [c \in DOMAIN f.rows[i] \cup {name} |->
                  IF c = name THEN values[i] ELSE f.rows[i][c]]]]

\* df.drop(columns=names, inplace=True)
drop_columns_keep(f, names) == f
drop_columns(f, names) ==
  [columns |-> SelectSeq(f.columns, LAMBDA c : c \notin names),
   rows |-> [i \in 1..Len(f.rows) |->
               [c \in DOMAIN f.rows[i] \ names |-> f.rows[i][c]]]]

\* (df["age"] // 5) * 5
age_group_nearest(age) == ((age + 2) \div 5) * 5
age_group(age) == (age \div 5) * 5

\* (df["income"] // 10000) * 10000
income_group(income) == (income \div 10000) * 10000

\* df.copy(): a new object holding the same columns and rows.
NewRef(h) == CHOOSE i \in 1..(Cardinality(DOMAIN h) + 1) :
               i \notin DOMAIN h /\ \A j \in 1..(i - 1) : j \in DOMAIN h
df_copy_alias(h, ref) == [heap |-> h, ret |-> ref]
df_copy(h, ref) == [heap |-> h @@ (NewRef(h) :> h[ref]), ret |-> NewRef(h)]

\* def apply_k_anonymity(df, k=5): changes the object it is handed and returns it.
apply_k_anonymity(h, ref, k) ==
  LET f0 == h[ref]
      f1 == set_column(f0, "age_group", [i \in 1..Len(f0.rows) |-> age_group(f0.rows[i].age)])
      f2 == set_column(f1, "income_group",
                       [i \in 1..Len(f1.rows) |-> income_group(f1.rows[i].income)])
      f3 == drop_columns(f2, {"age", "income"})
  IN  [heap |-> [h EXCEPT ![ref] = f3], ret |-> ref]

\* The rows of f in the group of row i, keyed by (age_group, income_group).
GroupOf(f, i) ==
  {j \in 1..Len(f.rows) :
     /\ f.rows[j].age_group = f.rows[i].age_group
     /\ f.rows[j].income_group = f.rows[i].income_group}

\* def check_l_diversity(df, l=2): (mutation: a group needs more than l values)
check_l_diversity_gt(f, l) ==
  \A i \in 1..Len(f.rows) :
    Cardinality({f.rows[j].condition : j \in GroupOf(f, i)}) > l

\* def check_l_diversity(df, l=2):
\*     diverse = df.groupby(["age_group", "income_group"])['condition'].nunique()
\*     return (diverse >= l).all()
check_l_diversity(f, l) ==
  \A i \in 1..Len(f.rows) :
    Cardinality({f.rows[j].condition : j \in GroupOf(f, i)}) >= l

InitAnonymization ==
  /\ \E n \in 0..MaxDfRows :
       \E ages \in [1..n -> Ages], incomes \in [1..n -> Incomes],
          conditions \in [1..n -> Conditions] :
         heap = (1 :> DataFrame(n, ages, incomes, conditions))
  /\ df = <<1>>
  /\ df_k_anonymous = <<>>
  /\ k_used = <<>>
  /\ l_diverse = <<>>
  /\ StoreIdle /\ call = NoCall /\ RngIdle /\ expenses = <<>> /\ GraphIdle /\ PseudonymIdle
  /\ ServerIdle

\* df_k_anonymous = apply_k_anonymity(df.copy(), k); the notebook's cell passes no
\* k, which is k = 5.  Rebinding the name releases the object it was bound to.
\* The call is recorded: the object handed over, its value at the call, k and
\* the object returned.
KAnonymityCell ==
  \E k \in KValues :
    LET live == [r \in DOMAIN heap \ {df_k_anonymous[j] : j \in 1..Len(df_k_anonymous)}
                   |-> heap[r]]
        copied == df_copy(live, df[1])
        applied == apply_k_anonymity(copied.heap, copied.ret, k)
    IN  /\ heap' = applied.heap
        /\ df_k_anonymous' = <<applied.ret>>
        /\ k_used' = <<k>>
        /\ call' = [fn |-> "apply_k_anonymity", arg |-> copied.ret,
                    before |-> copied.heap[copied.ret], k |-> k, ret |-> applied.ret]
        /\ UNCHANGED <<storeVars, rngVars, expenses, df, l_diverse, graphVars,
                       pseudonymized, serverVars>>

\* l_diverse = check_l_diversity(df_k_anonymous); a NameError when the name is
\* not bound yet.
LDiversityCell ==
  /\ df_k_anonymous # <<>>
  /\ l_diverse' = <<check_l_diversity(heap[df_k_anonymous[1]], L_DEFAULT)>>
  /\ UNCHANGED <<storeVars, call, rngVars, expenses, heap, df, df_k_anonymous, k_used,
                 graphVars, pseudonymized, serverVars>>

\* Thresholds check_l_diversity is called with.
LValues == {1, L_DEFAULT, 3}

\* A call check_l_diversity(df_k_anonymous, l) of the function the notebook defines.
CallCheckLDiversity ==
  /\ df_k_anonymous # <<>>
  /\ \E l \in LValues :
       call' = [fn |-> "check_l_diversity", arg |-> heap[df_k_anonymous[1]], l |-> l,
                ret |-> check_l_diversity(heap[df_k_anonymous[1]], l)]
  /\ UNCHANGED <<storeVars, rngVars, expenses, frameVars, graphVars, pseudonymized, serverVars>>

NextAnonymization ==
  \/ KAnonymityCell
  \/ LDiversityCell
  \/ CallCheckLDiversity

SpecAnonymization == InitAnonymization /\ [][NextAnonymization]_vars

\* The verdicts the notebook computes over the bucketed frame: the one of
\* check_l_diversity, a bare boolean.
Checks ==
  IF l_diverse = <<>> THEN {} ELSE {[check |-> "l_diversity", pass |-> l_diverse[1]]}

(***************************************************************************)
(* Claims on k-anonymity                                                   *)
(***************************************************************************)
Original == heap[df[1]]
Bucketed == heap[df_k_anonymous[1]]

\* C7: after apply_k_anonymity, every record has age_group = floor(age / 5) * 5
\* and income_group = floor(income / 10000) * 10000, age and income being the
\* record's values before the call: the group is the multiple of the width with
\* group <= value < group + width.
C7_BucketIsFloorMultiple ==
  df_k_anonymous # <<>> =>
    \A i \in 1..Len(Bucketed.rows) :
      LET before == Original.rows[i]
          after == Bucketed.rows[i]
      IN  /\ after.age_group % 5 = 0
          /\ after.age_group <= before.age /\ before.age < after.age_group + 5
          /\ after.income_group % 10000 = 0
          /\ after.income_group <= before.income
          /\ before.income < after.income_group + 10000

\* C7 witness: a bucketed frame with a record whose age and income lie strictly
\* inside their buckets, and one whose age is a bucket's lower end.
C7_Witness ==
  /\ df_k_anonymous # <<>>
  /\ \E i, j \in 1..Len(Bucketed.rows) :
       /\ Original.rows[i].age = 24 /\ Bucketed.rows[i].age_group = 20
       /\ Original.rows[i].income = 29999 /\ Bucketed.rows[i].income_group = 20000
       /\ Original.rows[j].age = 25 /\ Bucketed.rows[j].age_group = 25

\* C8: the result of apply_k_anonymity has no age and no income column, has the
\* rows of its input in the same number and order, and every record keeps its id
\* and its condition.
C8_DropsQuasiIdentifiers ==
  df_k_anonymous # <<>> =>
    /\ ~HasColumn(Bucketed, "age") /\ ~HasColumn(Bucketed, "income")
    /\ Len(Bucketed.rows) = Len(Original.rows)
    /\ \A i \in 1..Len(Bucketed.rows) :
         /\ DOMAIN Bucketed.rows[i] = {"id", "condition", "age_group", "income_group"}
         /\ Bucketed.rows[i].id = Original.rows[i].id
         /\ Bucketed.rows[i].condition = Original.rows[i].condition

\* C8 witness: a bucketed frame of several rows with different conditions, made
\* from a frame that had the age and income columns.
C8_Witness ==
  /\ df_k_anonymous # <<>>
  /\ HasColumn(Original, "age") /\ HasColumn(Original, "income")
  /\ Bucketed.columns = <<"id", "condition", "age_group", "income_group">>
  /\ Len(Bucketed.rows) >= 2
  /\ Bucketed.rows[1].condition # Bucketed.rows[2].condition

\* The (age_group, income_group) combinations of f shared by fewer than k records.
SmallGroups(f, k) ==
  {<<f.rows[i].age_group, f.rows[i].income_group>> :
     i \in {j \in 1..Len(f.rows) : Cardinality(GroupOf(f, j)) < k}}

\* C9: after apply_k_anonymity(df, k), every (age_group, income_group) combination
\* present in the result is shared by at least k records.
C9_EveryGroupHasKRecords ==
  df_k_anonymous # <<>> =>
    \A i \in 1..Len(Bucketed.rows) : Cardinality(GroupOf(Bucketed, i)) >= k_used[1]

\* C10: once the notebook's cells over the bucketed frame have run, it holds a
\* k-anonymity verdict, separate from the bucketing: pass when every group has at
\* least k members, fail together with the violating groups otherwise.
C10_KAnonymityVerdict ==
  (df_k_anonymous # <<>> /\ l_diverse # <<>>) =>
    \E c \in Checks :
      /\ c.check = "k_anonymity"
      /\ c.pass = (SmallGroups(Bucketed, k_used[1]) = {})
      /\ c.violating = SmallGroups(Bucketed, k_used[1])

(***************************************************************************)
(* Claims on l-diversity                                                   *)
(***************************************************************************)
LDiversityCalled == call.fn = "check_l_diversity"

\* The (age_group, income_group) keys present in f.
GroupKeys(f) == {<<f.rows[i].age_group, f.rows[i].income_group>> : i \in 1..Len(f.rows)}

\* The distinct condition values of the records of f under a key.
DistinctConditions(f, key) ==
  {f.rows[i].condition :
     i \in {j \in 1..Len(f.rows) : <<f.rows[j].age_group, f.rows[j].income_group>> = key}}

\* The groups of f holding fewer than l distinct conditions, with their counts.
FailingGroups(f, l) ==
  {[key |-> key, distinct |-> Cardinality(DistinctConditions(f, key))] :
     key \in {g \in GroupKeys(f) : Cardinality(DistinctConditions(f, g)) < l}}

\* C11: check_l_diversity(df, l) returns true if and only if every group keyed by
\* (age_group, income_group) holds at least l distinct conditions: a frame with a
\* group of one distinct condition fails l = 2, a frame whose groups all hold two
\* or more passes.  The same holds of the verdict the notebook's cell binds.
C11_LDiverseIffEveryGroupHasL ==
  /\ LDiversityCalled =>
       (call.ret <=> \A key \in GroupKeys(call.arg) :
                       Cardinality(DistinctConditions(call.arg, key)) >= call.l)
  /\ (l_diverse # <<>> /\ df_k_anonymous # <<>>) =>
       (l_diverse[1] <=> \A key \in GroupKeys(Bucketed) :
                           Cardinality(DistinctConditions(Bucketed, key)) >= L_DEFAULT)

\* C11 witness: a call with l = 2 on a frame with a group of two distinct
\* conditions and a group of one returned false, the cell's verdict is false too,
\* and the frame passes l = 1.
C11_Witness ==
  /\ LDiversityCalled /\ call.l = L_DEFAULT /\ call.ret = FALSE
  /\ \E g1, g2 \in GroupKeys(call.arg) :
       /\ Cardinality(DistinctConditions(call.arg, g1)) = 2
       /\ Cardinality(DistinctConditions(call.arg, g2)) = 1
  /\ l_diverse = <<FALSE>>
  /\ check_l_diversity(call.arg, 1)

\* What a result of check_l_diversity names of the failing groups: the result is
\* one boolean, (diverse >= l).all(), so it names none.
ReportedGroups(ret) == {}

\* C12: when the l-diversity check fails, its result holds, for every group with
\* fewer than l distinct conditions, that group's key and its distinct count.
C12_FailureNamesFailingGroups ==
  (LDiversityCalled /\ call.ret = FALSE) =>
     \A g \in FailingGroups(call.arg, call.l) : g \in ReportedGroups(call.ret)

(***************************************************************************)
(* Graphs-and-locations notebook: perturb_edges.  A graph is an object of  *)
(* the heap, [nodes, edges]: an undirected edge is the pair <<a, b>> with  *)
(* a < b.  np.random.rand() yields a number of [0, 1), held in thousandths,*)
(* and so are the probabilities p_remove and p_add.                        *)
(***************************************************************************)
\* Outcomes of np.random.rand(): 0.0, 0.05 and 0.999.
RandValues == {0, 50, 999}

\* Probabilities perturb_edges is called with: 0, the default 0.1, and 1.
PValues == {0, 100, 1000}

Edge(a, b) == IF a < b THEN <<a, b>> ELSE <<b, a>>

\* Graphs on the nodes 0 .. n-1.
Graphs(n) == {[nodes |-> 0..(n - 1), edges |-> es] :
                es \in SUBSET {<<a, b>> \in (0..(n - 1)) \X (0..(n - 1)) : a < b}}

\* list(new_graph.edges): the edges in the order of their end points.
RECURSIVE EdgeList(_)
EdgeList(es) ==
  IF es = {} THEN <<>>
  ELSE LET e == CHOOSE x \in es :
                  \A y \in es : x[1] < y[1] \/ (x[1] = y[1] /\ x[2] <= y[2])
       IN  <<e>> \o EdgeList(es \ {e})

\* graph.copy(): a new object holding the same nodes and edges.
graph_copy_alias(h, ref) == [heap |-> h, ret |-> ref]
graph_copy(h, ref) == [heap |-> h @@ (NewRef(h) :> h[ref]), ret |-> NewRef(h)]

\* new_graph.remove_edge(*edge) / new_graph.add_edge(node1, node2)
remove_edge(g, e) == [g EXCEPT !.edges = @ \ {e}]
add_edge(g, a, b) == [nodes |-> g.nodes \cup {a, b}, edges |-> g.edges \cup {Edge(a, b)}]

\* if np.random.rand() < p_remove:
removes_edge_le(r, p_remove) == r <= p_remove
removes_edge(r, p_remove) == r < p_remove

\* while np.random.rand() < p_add:
adds_edge(r, p_add) == r < p_add

\* np.random.choice(list(new_graph.nodes), 2, replace=False): the ordered pairs
\* of two different nodes.
np_random_choice_replace(nodes) == nodes \X nodes
np_random_choice(nodes) == {pair \in nodes \X nodes : pair[1] # pair[2]}

\* The objects still referenced once a name bound to old is bound to new.
Release(h, old, keep) ==
  [r \in DOMAIN h \ ({old[j] : j \in 1..Len(old)} \ keep) |-> h[r]]

InitGraph ==
  /\ \E n \in 0..MaxNodes : \E g \in Graphs(n) : heap = (1 :> g)
  /\ graph = <<1>>
  /\ perturbed_graph = <<>>
  /\ frame = NoFrame
  /\ call = NoCall
  /\ df = <<>> /\ df_k_anonymous = <<>> /\ k_used = <<>> /\ l_diverse = <<>>
  /\ StoreIdle /\ RngIdle /\ expenses = <<>> /\ PseudonymIdle
  /\ ServerIdle

\* perturb_edges(graph, p_remove, p_add) is entered: new_graph = graph.copy(), and
\* the for loop takes its snapshot list(new_graph.edges).  The locals node1 and
\* node2 are not bound before the first add iteration.
CallPerturbEdges ==
  /\ frame.pc = "none"
  /\ \E p_remove, p_add \in PValues :
       LET copied == graph_copy(heap, graph[1])
           snapshot == EdgeList(copied.heap[copied.ret].edges)
       IN  /\ heap' = copied.heap
           /\ frame' = [pc |-> IF snapshot = <<>> THEN "add" ELSE "remove",
                        new_graph |-> copied.ret, edges |-> snapshot,
                        p_remove |-> p_remove, p_add |-> p_add,
                        node1 |-> <<>>, node2 |-> <<>>]
           /\ call' = [fn |-> "perturb_edges", before |-> heap[graph[1]],
                       p_remove |-> p_remove, p_add |-> p_add, status |-> "running"]
  /\ UNCHANGED <<storeVars, rngVars, expenses, df, df_k_anonymous, k_used, l_diverse,
                 graph, perturbed_graph, pseudonymized, serverVars>>

\* One iteration of `for edge in list(new_graph.edges)`.
RemoveStep ==
  /\ frame.pc = "remove"
  /\ \E r \in RandValues :
       heap' = IF removes_edge(r, frame.p_remove)
                 THEN [heap EXCEPT ![frame.new_graph] = remove_edge(@, Head(frame.edges))]
                 ELSE heap
  /\ frame' = [frame EXCEPT !.edges = Tail(@),
                            !.pc = IF Tail(frame.edges) = <<>> THEN "add" ELSE "remove"]
  /\ UNCHANGED <<storeVars, call, rngVars, expenses, df, df_k_anonymous, k_used, l_diverse,
                 graph, perturbed_graph, pseudonymized, serverVars>>

\* The test of the while loop succeeds and the body adds an edge between two
\* nodes drawn by np.random.choice(list(new_graph.nodes), 2, replace=False).
AddEdge ==
  /\ frame.pc = "add"
  /\ \E r \in RandValues : adds_edge(r, frame.p_add)
  /\ Cardinality(heap[frame.new_graph].nodes) >= 2
  /\ \E pair \in np_random_choice(heap[frame.new_graph].nodes) :
       /\ frame' = [frame EXCEPT !.node1 = <<pair[1]>>, !.node2 = <<pair[2]>>]
       /\ heap' = [heap EXCEPT ![frame.new_graph] = add_edge(@, pair[1], pair[2])]
  /\ UNCHANGED <<storeVars, call, rngVars, expenses, df, df_k_anonymous, k_used, l_diverse,
                 graph, perturbed_graph, pseudonymized, serverVars>>

\* The test of the while loop succeeds on a graph of fewer than two nodes:
\* np.random.choice raises ValueError, which ends the call.
AddRaise ==
  /\ frame.pc = "add"
  /\ \E r \in RandValues : adds_edge(r, frame.p_add)
  /\ Cardinality(heap[frame.new_graph].nodes) < 2
  /\ heap' = Release(heap, <<frame.new_graph>>, {})
  /\ frame' = NoFrame
  /\ call' = [call EXCEPT !.status = "raised"]
  /\ UNCHANGED <<storeVars, rngVars, expenses, df, df_k_anonymous, k_used, l_diverse,
                 graph, perturbed_graph, pseudonymized, serverVars>>

\* The test of the while loop fails: return new_graph, which the cell binds to
\* perturbed_graph.
ReturnGraph ==
  /\ frame.pc = "add"
  /\ \E r \in RandValues : ~adds_edge(r, frame.p_add)
  /\ perturbed_graph' = <<frame.new_graph>>
  /\ heap' = Release(heap, perturbed_graph, {graph[1], frame.new_graph})
  /\ frame' = NoFrame
  /\ call' = [call EXCEPT !.status = "returned"] @@ [ret |-> heap[frame.new_graph]]
  /\ UNCHANGED <<storeVars, rngVars, expenses, df, df_k_anonymous, k_used, l_diverse,
                 graph, pseudonymized, serverVars>>

\* The caller changes the graph it was returned: it adds or removes an edge.
ModifyPerturbed ==
  /\ frame.pc = "none"
  /\ perturbed_graph # <<>>
  /\ \E a, b \in heap[perturbed_graph[1]].nodes :
       /\ a < b
       /\ heap' = [heap EXCEPT ![perturbed_graph[1]] =
                     IF <<a, b>> \in @.edges THEN remove_edge(@, <<a, b>>)
                                             ELSE add_edge(@, a, b)]
  /\ UNCHANGED <<storeVars, call, rngVars, expenses, df, df_k_anonymous, k_used, l_diverse,
                 graphVars, pseudonymized, serverVars>>

NextGraph ==
  \/ CallPerturbEdges
  \/ RemoveStep
  \/ AddEdge
  \/ AddRaise
  \/ ReturnGraph
  \/ ModifyPerturbed

SpecGraph == InitGraph /\ [][NextGraph]_vars

\* The interpreter keeps running a call it has begun, and a test of the while
\* loop that can fail again and again does fail at some point.
SpecGraphLive ==
  /\ SpecGraph
  /\ WF_vars(RemoveStep)
  /\ WF_vars(AddEdge \/ AddRaise \/ ReturnGraph)
  /\ SF_vars(ReturnGraph)

(***************************************************************************)
(* Claims on perturb_edges                                                 *)
(***************************************************************************)
PerturbEdgesCalled == call.fn = "perturb_edges"

\* C13: perturb_edges leaves its input unmodified: from the entry of the call on,
\* during it, after it and after the caller has changed the returned graph, the
\* graph passed in has the nodes and edges it had before the call; and the graph
\* returned is another object than the one passed in.
C13_InputGraphUnmodified ==
  PerturbEdgesCalled =>
    /\ heap[graph[1]] = call.before
    /\ frame.pc # "none" => frame.new_graph # graph[1]
    /\ call.status = "returned" => perturbed_graph[1] # graph[1]

\* C13 witness: a call with p_remove = 1 returned a graph that lost edges of the
\* input, and the caller has changed the returned graph since.
C13_Witness ==
  /\ PerturbEdgesCalled /\ call.status = "returned" /\ frame.pc = "none"
  /\ call.before.edges # {} /\ call.ret.edges # call.before.edges
  /\ heap[perturbed_graph[1]] # call.ret
  /\ heap[graph[1]] = call.before

\* C14: with p_remove = 0 and p_add = 0 the graph returned by perturb_edges has
\* the edge set of the input graph.
C14_IdentityAtZeroProbabilities ==
  (PerturbEdgesCalled /\ call.status = "returned" /\ call.p_remove = 0 /\ call.p_add = 0) =>
     call.ret.edges = call.before.edges

\* C14 witness: a call with p_remove = 0 and p_add = 0 on a graph with edges
\* returned that edge set.
C14_Witness ==
  /\ PerturbEdgesCalled /\ call.status = "returned"
  /\ call.p_remove = 0 /\ call.p_add = 0
  /\ Cardinality(call.before.edges) >= 2 /\ call.ret.edges = call.before.edges

\* C15: every call of perturb_edges, for every graph and every p_remove and p_add
\* in [0, 1], finishes its removal pass and its add loop and returns a graph.
C15_PerturbEdgesReturns ==
  [](PerturbEdgesCalled /\ call.status = "running"
       => <>(PerturbEdgesCalled /\ call.status = "returned"))

(***************************************************************************)
(* Graphs-and-locations notebook: generate_dummy_locations.  Coordinates   *)
(* and the radius are held in thousandths of a degree.                     *)
(***************************************************************************)
\* np.random.uniform(low, high) == low + (high - low) * rand, rand in [0, 1)
\* being r thousandths.
np_uniform_wide(r, low, high) == 2 * low + ((2 * high - 2 * low) * r) \div 1000
np_uniform(r, low, high) == low + ((high - low) * r) \div 1000

\* (lat + np.random.uniform(-radius, radius), lon + np.random.uniform(-radius, radius)):
\* one dummy takes two draws, the one of its latitude first.
dummy_location(lat, lon, radius, r1, r2) ==
  <<lat + np_uniform(r1, 0 - radius, radius), lon + np_uniform(r2, 0 - radius, radius)>>

\* Real locations, of np.random.uniform(-90, 90) and np.random.uniform(-180, 180),
\* some of them next to the ends of the ranges.
Latitudes == {0 - 90000, 0, 89950}
Longitudes == {0 - 179950, 0, 179999}
Radii == {0, 100, 5000}

InitLocations ==
  /\ call = NoCall
  /\ StoreIdle /\ RngIdle /\ expenses = <<>> /\ FramesIdle /\ GraphIdle /\ PseudonymIdle
  /\ ServerIdle

DummiesRunning == call.fn = "generate_dummy_locations" /\ call.status = "running"

\* generate_dummy_locations(lat, lon, num_dummies, radius) is entered: dummies = []
CallGenerateDummyLocations ==
  /\ ~DummiesRunning
  /\ \E lat \in Latitudes, lon \in Longitudes, radius \in Radii, num_dummies \in 0..MaxDummies :
       call' = [fn |-> "generate_dummy_locations", lat |-> lat, lon |-> lon,
                num_dummies |-> num_dummies, radius |-> radius,
                dummies |-> <<>>, status |-> "running"]
  /\ UNCHANGED <<storeVars, rngVars, expenses, frameVars, graphVars, pseudonymized, serverVars>>

\* One iteration of `for _ in range(num_dummies)`: dummies.append(...)
AppendDummy ==
  /\ DummiesRunning
  /\ Len(call.dummies) < call.num_dummies
  /\ \E r1, r2 \in RandValues :
       call' = [call EXCEPT !.dummies =
                  Append(@, dummy_location(call.lat, call.lon, call.radius, r1, r2))]
  /\ UNCHANGED <<storeVars, rngVars, expenses, frameVars, graphVars, pseudonymized, serverVars>>

\* return dummies
ReturnDummies ==
  /\ DummiesRunning
  /\ ~(Len(call.dummies) < call.num_dummies)
  /\ call' = [call EXCEPT !.status = "returned"] @@ [ret |-> call.dummies]
  /\ UNCHANGED <<storeVars, rngVars, expenses, frameVars, graphVars, pseudonymized, serverVars>>

NextLocations ==
  \/ CallGenerateDummyLocations
  \/ AppendDummy
  \/ ReturnDummies

SpecLocations == InitLocations /\ [][NextLocations]_vars

(***************************************************************************)
(* Claims on generate_dummy_locations                                      *)
(***************************************************************************)
DummiesCalled == call.fn = "generate_dummy_locations" /\ call.status = "returned"

\* C16: generate_dummy_locations(lat, lon, num_dummies, radius), for a count and a
\* radius that are not negative, returns exactly num_dummies coordinates, and every
\* returned (dlat, dlon) has |dlat - lat| <= radius and |dlon - lon| <= radius.
\* Nothing is clamped or wrapped: the witness below is a result with a latitude
\* above 90 and a longitude below -180.
C16_DummiesWithinRadius ==
  DummiesCalled =>
    /\ Len(call.ret) = call.num_dummies
    /\ \A i \in 1..Len(call.ret) :
         /\ Abs(call.ret[i][1] - call.lat) <= call.radius
         /\ Abs(call.ret[i][2] - call.lon) <= call.radius

\* C16 witness: a call for two dummies around (89.95, -179.95) with radius 0.1
\* returned two coordinates, the first with a latitude above 90 and the second
\* with a longitude below -180.
C16_Witness ==
  /\ DummiesCalled /\ call.num_dummies = 2 /\ Len(call.ret) = 2
  /\ call.lat = 89950 /\ call.lon = 0 - 179950 /\ call.radius = 100
  /\ call.ret[1][1] > 90000 /\ call.ret[2][1] <= 90000
  /\ call.ret[2][2] < 0 - 180000

(***************************************************************************)
(* Pseudonymization notebook                                               *)
(*   ALTER TABLE patients ADD COLUMN pseudonym VARCHAR(64);                *)
(*   UPDATE patients SET pseudonym = md5(full_name || birth_date::TEXT);   *)
(* Every column is nullable: a cell holds <<>> for NULL and <<v>> for v.   *)
(* A DATE is <<year, month, day>>.                                         *)
(***************************************************************************)
\* md5 of the texts the model hashes, as 32 hexadecimal digits.
md5(s) ==
  CASE s = "" -> "d41d8cd98f00b204e9800998ecf8427e"
    [] s = "1949-09-12" -> "d8b960a8835fa96b239de7de3e543748"
    [] s = "1988-06-11" -> "b12445dd1b7c814bb944a4a5eb806f82"
    [] s = "Lisa Crane" -> "c3c6d839c48735860b23650f0c03e340"
    [] s = "Lisa Crane1949-09-12" -> "e72011112c9c48dbf351707dbf247bda"
    [] s = "Lisa Crane1988-06-11" -> "48e48881e9ab562c2f4ccb1c61472833"
    [] s = "James Miller" -> "7ca3e02490acdf6e2aa63cf8537c60a9"
    [] s = "James Miller1949-09-12" -> "da75bec7787cf01a35f503bfb476e839"
    [] s = "James Miller1988-06-11" -> "87efe9dfb864bca5da8e3b32e6ba8b6d"

\* birth_date::TEXT: the ISO form YYYY-MM-DD, month and day on two digits.
TwoDigits(n) == IF n < 10 THEN "0" \o ToString(n) ELSE ToString(n)
date_text(d) == ToString(d[1]) \o "-" \o TwoDigits(d[2]) \o "-" \o TwoDigits(d[3])

\* a || b and md5(a) of SQL: NULL as soon as an operand is NULL.
sql_concat(a, b) == IF a = <<>> \/ b = <<>> THEN <<>> ELSE <<a[1] \o b[1]>>
sql_cast_text(d) == IF d = <<>> THEN <<>> ELSE <<date_text(d[1])>>
sql_md5(a) == IF a = <<>> THEN <<>> ELSE <<md5(a[1])>>

\* md5(full_name || birth_date::TEXT)
PseudonymOf_plain(full_name, birth_date) == sql_concat(full_name, sql_cast_text(birth_date))
PseudonymOf(full_name, birth_date) == sql_md5(sql_concat(full_name, sql_cast_text(birth_date)))

\* Names and birth dates of the first two seeds, and NULL.
FullNames == {<<>>, <<"Lisa Crane">>, <<"James Miller">>}
BirthDates == {<<>>, <<<<1949, 9, 12>>>>, <<<<1988, 6, 11>>>>}

PseudonymColumns ==
  {"id", "full_name", "birth_date", "country", "medical_condition", "insurance_amount"}

PseudonymRow(i, full_name, birth_date) ==
  [id |-> i, full_name |-> full_name, birth_date |-> birth_date, country |-> <<"Estonia">>,
   medical_condition |-> <<"Diabetes">>, insurance_amount |-> <<Dec(6299, 37)>>]

\* ALTER TABLE patients ADD COLUMN pseudonym VARCHAR(64): NULL in every row.
AddPseudonymColumn(rows) ==
  [i \in 1..Len(rows) |->
     [c \in DOMAIN rows[i] \cup {"pseudonym"} |->
        IF c = "pseudonym" THEN <<>> ELSE rows[i][c]]]

\* UPDATE patients SET pseudonym = md5(full_name || birth_date::TEXT): every row.
UpdatePseudonym_replacing(rows) ==
  [i \in 1..Len(rows) |->
     [rows[i] EXCEPT !.pseudonym = PseudonymOf(rows[i].full_name, rows[i].birth_date),
                     !.full_name = PseudonymOf(rows[i].full_name, rows[i].birth_date)]]
UpdatePseudonym(rows) ==
  [i \in 1..Len(rows) |->
     [rows[i] EXCEPT !.pseudonym = PseudonymOf(rows[i].full_name, rows[i].birth_date)]]

\* The pseudonyms produced so far, each with the name and date it was computed from.
Issued == IF call.fn = "pseudonymize" THEN call.issued ELSE {}

InitPseudonym ==
  /\ \E n \in 0..MaxPseudonymRows :
       \E names \in [1..n -> FullNames], dates \in [1..n -> BirthDates] :
         pseudonymized = [columns |-> PseudonymColumns,
                          rows |-> [i \in 1..n |-> PseudonymRow(i, names[i], dates[i])]]
  /\ StoreIdle /\ call = NoCall /\ RngIdle /\ expenses = <<>> /\ FramesIdle /\ GraphIdle
  /\ ServerIdle

\* The table cell: DROP TABLE IF EXISTS patients; CREATE TABLE patients (...).
CreatePseudonymTable ==
  /\ cell = "none"
  /\ pseudonymized' = [columns |-> PseudonymColumns, rows |-> <<>>]
  /\ lastStmt' = "create"
  /\ UNCHANGED <<tableExists, patients, patients_id_seq, cell, stmt, call, rngVars, expenses,
                 frameVars, graphVars, serverVars>>

\* INSERT INTO patients (full_name, birth_date, ...) VALUES (...): one row.
InsertPatient ==
  /\ cell = "none"
  /\ Len(pseudonymized.rows) < MaxPseudonymRows
  /\ \E full_name \in FullNames, birth_date \in BirthDates :
       LET row == PseudonymRow(Len(pseudonymized.rows) + 1, full_name, birth_date)
           new == IF "pseudonym" \in pseudonymized.columns
                    THEN [c \in DOMAIN row \cup {"pseudonym"} |->
                            IF c = "pseudonym" THEN <<>> ELSE row[c]]
                    ELSE row
       IN  pseudonymized' = [pseudonymized EXCEPT !.rows = Append(@, new)]
  /\ lastStmt' = "insert"
  /\ UNCHANGED <<tableExists, patients, patients_id_seq, cell, stmt, call, rngVars, expenses,
                 frameVars, graphVars, serverVars>>

\* First statement of the pseudonymization cell.  Adding a column that exists
\* raises, which ends the cell before its UPDATE.
AlterAddPseudonym ==
  /\ cell = "none"
  /\ IF "pseudonym" \in pseudonymized.columns
       THEN /\ lastStmt' = "error"
            /\ UNCHANGED <<pseudonymized, cell, stmt>>
       ELSE /\ pseudonymized' = [columns |-> pseudonymized.columns \cup {"pseudonym"},
                                 rows |-> AddPseudonymColumn(pseudonymized.rows)]
            /\ cell' = "pseudonymize" /\ stmt' = 1 /\ lastStmt' = "alter"
  /\ UNCHANGED <<tableExists, patients, patients_id_seq, call, rngVars, expenses,
                 frameVars, graphVars, serverVars>>

\* Second statement of the pseudonymization cell.
PseudonymUpdate ==
  /\ cell = "pseudonymize"
  /\ pseudonymized' = [pseudonymized EXCEPT !.rows = UpdatePseudonym(@)]
  /\ call' = [fn |-> "pseudonymize",
              issued |-> Issued \cup
                {[full_name |-> pseudonymized.rows[i].full_name,
                  birth_date |-> pseudonymized.rows[i].birth_date,
                  pseudonym |-> UpdatePseudonym(pseudonymized.rows)[i].pseudonym] :
                   i \in {j \in 1..Len(pseudonymized.rows) :
                            UpdatePseudonym(pseudonymized.rows)[j].pseudonym # <<>>}}]
  /\ cell' = "none" /\ stmt' = 0 /\ lastStmt' = "update"
  /\ UNCHANGED <<tableExists, patients, patients_id_seq, rngVars, expenses,
                 frameVars, graphVars, serverVars>>

NextPseudonym ==
  \/ CreatePseudonymTable
  \/ InsertPatient
  \/ AlterAddPseudonym
  \/ PseudonymUpdate
  \/ Interrupt

SpecPseudonym == InitPseudonym /\ [][NextPseudonym]_vars

(***************************************************************************)
(* Claims on pseudonymization                                              *)
(***************************************************************************)
\* C17: pseudonymization is deterministic with a fixed-length output: two
\* pseudonyms computed from the same (full_name, birth_date), in one run of the
\* UPDATE or in two, for one row or for two, are the same, and every pseudonym
\* produced has 32 characters.
C17_PseudonymDeterministicFixedLength ==
  /\ \A t1, t2 \in Issued :
       (t1.full_name = t2.full_name /\ t1.birth_date = t2.birth_date)
         => t1.pseudonym = t2.pseudonym
  /\ \A t \in Issued : Len(t.pseudonym[1]) = 32
  /\ ("pseudonym" \in pseudonymized.columns) =>
       \A i, j \in 1..Len(pseudonymized.rows) :
         LET ri == pseudonymized.rows[i]
             rj == pseudonymized.rows[j]
         IN  /\ ri.pseudonym # <<>> => Len(ri.pseudonym[1]) = 32
             /\ (ri.pseudonym # <<>> /\ rj.pseudonym # <<>>
                 /\ ri.full_name = rj.full_name /\ ri.birth_date = rj.birth_date)
                  => ri.pseudonym = rj.pseudonym

\* C17 witness: two rows with the same name and date hold the same pseudonym,
\* names of different lengths were pseudonymized, and the UPDATE has run on two
\* tables.
C17_Witness ==
  /\ "pseudonym" \in pseudonymized.columns /\ lastStmt = "update"
  /\ Len(pseudonymized.rows) >= 2
  /\ pseudonymized.rows[1].full_name = <<"Lisa Crane">>
  /\ pseudonymized.rows[1].birth_date # <<>>
  /\ pseudonymized.rows[2].full_name = pseudonymized.rows[1].full_name
  /\ pseudonymized.rows[2].birth_date = pseudonymized.rows[1].birth_date
  /\ pseudonymized.rows[1].pseudonym # <<>>
  /\ pseudonymized.rows[2].pseudonym = pseudonymized.rows[1].pseudonym
  /\ \E t \in Issued : t.full_name = <<"James Miller">>

\* The token of a row whose NULL name or date is replaced by the empty string.
coalesce(a) == IF a = <<>> THEN <<"">> ELSE a
SubstitutedPseudonym(full_name, birth_date) ==
  sql_md5(sql_concat(coalesce(full_name), coalesce(sql_cast_text(birth_date))))

\* C18: pseudonymizing a row whose full_name or birth_date is NULL either fails
\* with an error or stores the token computed with the NULL replaced by the empty
\* string; it never stores a NULL pseudonym.
C18_NullInputFailsOrSubstitutes ==
  ("pseudonym" \in pseudonymized.columns /\ lastStmt = "update") =>
     \A i \in 1..Len(pseudonymized.rows) :
       LET r == pseudonymized.rows[i]
       IN  (r.full_name = <<>> \/ r.birth_date = <<>>) =>
             /\ r.pseudonym # <<>>
             /\ r.pseudonym = SubstitutedPseudonym(r.full_name, r.birth_date)

(***************************************************************************)
(* Claims on malformed and missing input                                   *)
(***************************************************************************)
\* A call of suppress_insurance_cost on an argument that is no number.
SuppressCalledMalformed == call.fn = "suppress_insurance_cost" /\ "argtype" \in DOMAIN call

HoldsNullCost == \E i \in 1..Len(patients) : patients[i].insurance_cost = <<>>

\* C19: suppression of a record whose amount is missing or is no number raises an
\* error: a call of suppress_insurance_cost on None or on a string raises, and the
\* UPDATE over a table holding a row with a NULL insurance_cost ends in an error
\* instead of completing with that row left as it was.
C19_MalformedAmountRaises ==
  /\ [](SuppressCalledMalformed => "raised" \in DOMAIN call)
  /\ [][(SuppressUpdate /\ tableExists /\ HoldsNullCost) => lastStmt' = "error"]_vars

(***************************************************************************)
(* The three notebooks that transform the patients table in SQL, side by   *)
(* side: a behaviour is a run of one of them.                              *)
(***************************************************************************)
Notebook ==
  IF expenses # <<>> THEN "perturbation"
  ELSE IF pseudonymized # <<>> THEN "pseudonymization"
  ELSE "suppression"

InitSqlTransforms ==
  \/ InitSuppression
  \/ InitPerturbSql
  \/ InitPseudonym

NextSqlTransforms ==
  \/ Notebook = "suppression" /\ NextSuppression
  \/ Notebook = "perturbation" /\ NextPerturbSql
  \/ Notebook = "pseudonymization" /\ NextPseudonym

SpecSqlTransforms == InitSqlTransforms /\ [][NextSqlTransforms]_vars

\* The rows after are the rows before, in number and order, but for column col.
SameExcept(before, after, col) ==
  /\ Len(after) = Len(before)
  /\ \A i \in 1..Len(before) :
       /\ DOMAIN after[i] \ {col} = DOMAIN before[i] \ {col}
       /\ \A c \in DOMAIN before[i] \ {col} : after[i][c] = before[i][c]

SeededRows ==
  {i \in 1..Len(patients) :
     \E k \in 1..Len(SeedRows) : patients[i].full_name = SeedRows[k].full_name}

\* C21: every multi-row write is one bulk statement, so that an interruption
\* between two statements never leaves a multi-row write partly applied: a step
\* of the suppression UPDATE leaves no row above the threshold, and after an
\* interruption the table holds the ten seeds of a seeding wholly or not at all.
C21_NoPartlyAppliedWrite ==
  /\ [][(SuppressUpdate /\ tableExists) =>
          \A i \in 1..Len(patients') : ~UpdateWhere(patients'[i])]_vars
  /\ [](lastStmt = "interrupt" => Cardinality(SeededRows) % Len(SeedRows) = 0)


\* The step that executes the last INSERT of a seeding cell which found the
\* table empty, as the table-creation cell leaves it.
CompletesSeedingOfEmptyTable ==
  /\ SeedInsert /\ tableExists
  /\ stmt + 1 = Len(SeedRows) /\ Len(patients) = stmt

\* C22: identifiers are unique and monotonic and insertion order is kept: in every
\* state reached by the table-creation cell and the seeding cell, interrupted or
\* not, the ids of patients are distinct and strictly increasing in insertion
\* order; and the table-creation cell followed by one seeding yields exactly the
\* ten seeded rows, with the ids 1 to 10, whatever the table held before.
C22_IdsUniqueMonotonicSeedsExact ==
  /\ [](\A i, j \in 1..Len(patients) : i < j => patients[i].id < patients[j].id)
  /\ [][CreateTable => (patients' = <<>> /\ patients_id_seq' = 1)]_vars
  /\ [][CompletesSeedingOfEmptyTable =>
          /\ Len(patients') = Len(SeedRows)
          /\ \A i \in 1..Len(SeedRows) :
               patients'[i] = [id |-> i, full_name |-> SeedRows[i].full_name,
                               birth_date |-> SeedRows[i].birth_date,
                               country |-> SeedRows[i].country,
                               medical_condition |-> SeedRows[i].medical_condition,
                               insurance_cost |-> <<SeedRows[i].insurance_cost>>]]_vars

\* C22 witness: a seeding cell has run to its end on an empty table: the table
\* holds the ten seeds, the last one with id 10, and the sequence stands at 11.
C22_Witness ==
  /\ HoldsTheTenSeeds /\ lastStmt = "insert" /\ cell = "none"
  /\ patients_id_seq = Len(SeedRows) + 1
  /\ patients[Len(SeedRows)].id = Len(SeedRows)
  /\ patients[Len(SeedRows)].full_name = "Mrs. Audrey Wolfe"

(***************************************************************************)
(* Connection-setup cell, the same in every PostgreSQL notebook:           *)
(*   result = conn.execute("SELECT 1 FROM pg_database WHERE datname = %s;",*)
(*                         (PG_DBNA,))                                     *)
(*   exists = result.scalar()                                              *)
(*   if not exists: conn.execute(f"CREATE DATABASE {PG_DBNA};")            *)
(*   engine = create_engine(".../{PG_DBNA}")                               *)
(***************************************************************************)
\* PG_DBNA of the notebooks.
DatabaseNames == {"healthcare_db", "suppression_db", "perturbation_db", "privacy_db"}

\* result.scalar() of SELECT 1 FROM pg_database WHERE datname = name: 1 when a row
\* is found, None (<<>>) when the result is empty.
existence_query_none(name, databases) == <<>>
existence_query(name, databases) == IF name \in databases THEN <<1>> ELSE <<>>

InitSetup ==
  /\ pg_database \in SUBSET DatabaseNames
  /\ setup = NoSetup
  /\ StoreIdle /\ call = NoCall /\ RngIdle /\ expenses = <<>> /\ FramesIdle /\ GraphIdle
  /\ PseudonymIdle

\* The setup cell of a notebook starts: the existence query and exists = result.scalar()
SetupQuery ==
  /\ setup.pc = "idle"
  /\ \E name \in DatabaseNames :
       setup' = [pc |-> "queried", PG_DBNA |-> name,
                 exists |-> existence_query(name, pg_database),
                 create_issued |-> FALSE, create_failed |-> FALSE, completed |-> FALSE]
  /\ UNCHANGED <<storeVars, call, rngVars, expenses, frameVars, graphVars, pseudonymized,
                 pg_database>>

\* if not exists: CREATE DATABASE PG_DBNA.  Creating a database that exists raises,
\* which ends the cell.
SetupCreate ==
  /\ setup.pc = "queried"
  /\ setup.exists = <<>>
  /\ IF setup.PG_DBNA \in pg_database
       THEN /\ setup' = [setup EXCEPT !.pc = "idle", !.create_issued = TRUE,
                                      !.create_failed = TRUE]
            /\ UNCHANGED pg_database
       ELSE /\ pg_database' = pg_database \cup {setup.PG_DBNA}
            /\ setup' = [setup EXCEPT !.pc = "created", !.create_issued = TRUE]
  /\ UNCHANGED <<storeVars, call, rngVars, expenses, frameVars, graphVars, pseudonymized>>

\* engine = create_engine(...): the end of the cell, after the CREATE or when the
\* database was found.
SetupEngine ==
  /\ \/ setup.pc = "created"
     \/ setup.pc = "queried" /\ setup.exists # <<>>
  /\ setup' = [setup EXCEPT !.pc = "idle", !.completed = TRUE]
  /\ UNCHANGED <<storeVars, call, rngVars, expenses, frameVars, graphVars, pseudonymized,
                 pg_database>>

\* The kernel is interrupted between two statements of the setup cell.
SetupInterrupt ==
  /\ setup.pc # "idle"
  /\ setup' = [setup EXCEPT !.pc = "idle"]
  /\ UNCHANGED <<storeVars, call, rngVars, expenses, frameVars, graphVars, pseudonymized,
                 pg_database>>

NextSetup ==
  \/ SetupQuery
  \/ SetupCreate
  \/ SetupEngine
  \/ SetupInterrupt

SpecSetup == InitSetup /\ [][NextSetup]_vars

(***************************************************************************)
(* Claims on the connection-setup cell                                     *)
(***************************************************************************)
\* C23: after the connection-setup cell the target database exists; CREATE
\* DATABASE is issued if and only if the existence query found no database of that
\* name; and setup cells run one after the other never try to create a database
\* that exists.
C23_DatabaseCreatedIffMissing ==
  /\ setup.completed =>
       /\ setup.PG_DBNA \in pg_database
       /\ setup.create_issued <=> (setup.exists = <<>>)
  /\ setup.create_issued => setup.exists = <<>>
  /\ ~setup.create_failed

\* C23 witness: a setup cell has completed without a CREATE DATABASE, on a
\* database that exists, while another database of the notebooks does not exist
\* yet.
C23_Witness ==
  /\ setup.completed /\ setup.pc = "idle"
  /\ setup.exists = <<1>> /\ ~setup.create_issued
  /\ setup.PG_DBNA = "suppression_db" /\ "suppression_db" \in pg_database
  /\ "privacy_db" \notin pg_database

(***************************************************************************)
(* Claims on what the pseudonymization notebook exposes                    *)
(***************************************************************************)
\* SELECT id, pseudonym, birth_date, country, medical_condition FROM patients;
SelectPseudonymized(rows) ==
  [i \in 1..Len(rows) |->
     [c \in {"id", "pseudonym", "birth_date", "country", "medical_condition"} |-> rows[i][c]]]

\* A cell holding a hash-derived token: 32 hexadecimal digits, not the text t.
IsTokenNot(cellValue, t) == cellValue # <<>> /\ Len(cellValue[1]) = 32 /\ cellValue # t

\* C24: after the pseudonymization step, what the notebook exposes of a patient
\* with a name, a birth date and a country stands for the name and for the country
\* by hash-derived tokens, not by the seeded plaintext.
C24_NameAndCountryAreTokens ==
  ("pseudonym" \in pseudonymized.columns /\ lastStmt = "update") =>
     \A i \in 1..Len(pseudonymized.rows) :
       LET r == pseudonymized.rows[i]
           shown == SelectPseudonymized(pseudonymized.rows)[i]
       IN  (r.full_name # <<>> /\ r.birth_date # <<>> /\ r.country # <<>>) =>
             /\ "full_name" \notin DOMAIN shown
             /\ IsTokenNot(shown.pseudonym, r.full_name)
             /\ IsTokenNot(shown.country, r.country)


(***************************************************************************)
(* Claims relating the suppression UPDATE, its repetition and the function *)
(***************************************************************************)
\* C25: suppression is idempotent and closes the column under the threshold:
\* after one application no row holds a value above 300, every value being -1 or
\* the original value <= 300, and a second application changes no row.  The same
\* holds of suppress_insurance_cost applied to its own result.
C25_SuppressionIdempotentAndClosed ==
  /\ [](SuppressCalled =>
          /\ call.ret <= THRESHOLD
          /\ suppress_insurance_cost(call.ret) = call.ret)
  /\ [](lastStmt = "update" =>
          \A i \in 1..Len(patients) :
            patients[i].insurance_cost # <<>> => patients[i].insurance_cost[1] <= THRESHOLD)
  /\ [][(SuppressUpdate /\ tableExists) =>
          /\ \A i \in 1..Len(patients) :
               \/ patients'[i].insurance_cost = <<SENTINEL>>
               \/ patients'[i].insurance_cost = patients[i].insurance_cost
          /\ UpdateSuppress(patients') = patients'
          /\ lastStmt = "update" => patients' = patients]_vars

\* C25 witness: the UPDATE has run over a table that holds a suppressed row, a
\* row at the threshold and a seeded row below it, and the function was called on
\* a value above the threshold.
C25_Witness ==
  /\ lastStmt = "update"
  /\ \E i, j, k \in 1..Len(patients) :
       /\ patients[i].insurance_cost = <<SENTINEL>>
       /\ patients[j].insurance_cost = <<THRESHOLD>>
       /\ patients[k].insurance_cost = <<Dec(270, 66)>>
  /\ SuppressCalled /\ call.arg > THRESHOLD /\ call.ret = SENTINEL


HoldsNoNullCost == \A i \in 1..Len(patients) : patients[i].insurance_cost # <<>>

\* C26: suppress_insurance_cost and the UPDATE that is executed compute the same
\* transformation: for every table of non-null insurance_cost values, the column
\* after the UPDATE is the column obtained by applying suppress_insurance_cost to
\* each row.
C26_UpdateEqualsFunctionPerRow ==
  [][(SuppressUpdate /\ tableExists /\ HoldsNoNullCost) =>
       /\ Len(patients') = Len(patients)
       /\ \A i \in 1..Len(patients) :
            patients'[i].insurance_cost =
              <<suppress_insurance_cost(patients[i].insurance_cost[1])>>]_vars

\* C26 witness: the UPDATE has run over a table without NULL amounts that holds
\* two rows of an earlier run, the first at -1 and the second just below the
\* threshold, followed by the ten seeds.
C26_Witness ==
  /\ lastStmt = "update" /\ tableExists /\ HoldsNoNullCost
  /\ Len(patients) = MaxPreRows + Len(SeedRows)
  /\ patients[1].insurance_cost = <<SENTINEL>>
  /\ patients[2].insurance_cost = <<Dec(299, 99)>>
  /\ patients[4].insurance_cost = <<Dec(270, 66)>>


(***************************************************************************)
(* apply_k_anonymity and the object it is handed.                          *)
(***************************************************************************)
ApplyKAnonymityCalled == call.fn = "apply_k_anonymity"

\* C27: apply_k_anonymity transforms the frame it is given in place and returns
\* that same object, and its output does not depend on k; the notebook's df keeps
\* its age and income columns only because the call site passes df.copy().
\* After a call: the object returned is the object handed over; that object had
\* the age and income columns at the call and has the two group columns instead
\* of them now; its value is what the function yields from the value at the call
\* for every k; and the object handed over is not df, which still holds the value
\* the copy was taken from.
C27_InPlaceSameObjectAnyK ==
  ApplyKAnonymityCalled =>
    /\ call.ret = call.arg
    /\ HasColumn(call.before, "age") /\ HasColumn(call.before, "income")
    /\ ~HasColumn(heap[call.arg], "age") /\ ~HasColumn(heap[call.arg], "income")
    /\ HasColumn(heap[call.arg], "age_group") /\ HasColumn(heap[call.arg], "income_group")
    /\ \A k \in KValues :
         apply_k_anonymity((1 :> call.before), 1, k).heap[1] = heap[call.ret]
    /\ call.arg # df[1]
    /\ heap[df[1]] = call.before
    /\ df_k_anonymous = <<call.ret>>

\* C27 witness: a call with k = 1, not the default, on a copy of a frame with a
\* row aged 24, which the object handed over now holds in the group 20 while df
\* still holds the age.
C27_Witness ==
  /\ ApplyKAnonymityCalled /\ call.k = 1 /\ call.k # K_DEFAULT
  /\ \E i \in 1..Len(call.before.rows) :
       /\ call.before.rows[i].age = 24
       /\ heap[call.arg].rows[i].age_group = 20
       /\ heap[df[1]].rows[i].age = 24


(***************************************************************************)
(* perturb_edges: the nodes and the edges of the graph it builds.          *)
(***************************************************************************)
\* An edge that joins two different nodes of the set.
JoinsDistinct(e, nodes) == e[1] \in nodes /\ e[2] \in nodes /\ e[1] # e[2]

\* The edge of the pair the last add iteration picked.
PickedEdge(f) == Edge(f.node1[1], f.node2[1])

\* C28: perturb_edges preserves the node set and only adds well-formed edges.
\* (1) While the call runs and when it has returned, the graph it builds has
\* exactly the nodes of the input, and each of its edges is an edge of the input
\* or joins two different nodes of the input.  (2) Between two steps of a call
\* the nodes stay and an edge appears only in an add iteration, as the edge of
\* the pair that iteration picked.  (3) An add iteration picks two different
\* nodes of the input and leaves the edges plus the picked one, which is the
\* same edge set when the pair was an edge already.  (4) The graph returned is
\* the graph built.
C28_NodesKeptEdgesWellFormed ==
  /\ [](PerturbEdgesCalled /\ call.status # "raised" =>
          LET out == IF call.status = "returned" THEN call.ret ELSE heap[frame.new_graph]
          IN  /\ out.nodes = call.before.nodes
              /\ \A e \in out.edges :
                   e \in call.before.edges \/ JoinsDistinct(e, call.before.nodes))
  /\ [][(frame.pc # "none" /\ frame'.pc # "none") =>
          LET old == heap[frame.new_graph]
              new == heap'[frame.new_graph]
          IN  /\ new.nodes = old.nodes
              /\ \A e \in new.edges \ old.edges : AddEdge /\ e = PickedEdge(frame')]_vars
  /\ [][AddEdge =>
          LET old == heap[frame.new_graph]
              new == heap'[frame.new_graph]
          IN  /\ frame'.node1[1] \in call.before.nodes
              /\ frame'.node2[1] \in call.before.nodes
              /\ frame'.node1 # frame'.node2
              /\ new.edges = old.edges \cup {PickedEdge(frame')}
              /\ PickedEdge(frame') \in old.edges => new = old]_vars
  /\ [][ReturnGraph => call'.ret = heap[frame.new_graph]]_vars

\* C28 witness: a call with p_remove = 0 is in its add loop; the graph it builds
\* holds every edge of the input and an edge that an add iteration added, and
\* the last add iteration picked a pair that is an edge of the input, so that it
\* was an edge already when it was picked.
C28_Witness ==
  /\ PerturbEdgesCalled /\ frame.pc = "add" /\ call.p_remove = 0
  /\ frame.node1 # <<>>
  /\ PickedEdge(frame) \in call.before.edges
  /\ call.before.edges \subseteq heap[frame.new_graph].edges
  /\ heap[frame.new_graph].edges # call.before.edges
  /\ heap[frame.new_graph].nodes = call.before.nodes

====
